---- MODULE Spec2Model ----
(***************************************************************************)
(* The Smoothie frame scheduler / interpolator (src/src/vendor/smoothie.ts) *)
(* as a state machine: the constructor, the rate setters, pause / resume,   *)
(* start, and the requestAnimationFrame callback gameLoop with everything   *)
(* it calls (doInterpolate, capturePreviousSpriteProperties, render,        *)
(* restoreSpriteProperties).                                                *)
(*                                                                          *)
(* Numbers.  JavaScript numbers are modelled as exact fixed-point integers: *)
(* times in units of 1/TimeScale ms, so that 1000 / fps is exact for every  *)
(* rate in the input sets, and node attributes in units that every modelled *)
(* tick duration divides, so that (live - previous) * tick is exact.  The   *)
(* two non-numeric outcomes the code can produce, undefined and NaN, are    *)
(* the reserved values Undefined and NaN with JavaScript's propagation      *)
(* rules.  Binary floating-point rounding is not modelled.                  *)
(*                                                                          *)
(* Scene nodes.  A node's attributes (x, y, rotation, width, height,        *)
(* scale.x, scale.y, alpha) are independent stored fields, which is how     *)
(* smoothie.ts reads and writes them; the accessors of the PIXI library     *)
(* behind them are not part of the repository.                              *)
(***************************************************************************)
EXTENDS Integers, Sequences, FiniteSets, TLC

\* ------------------------------------------------------------ JS values

\* The JavaScript value undefined, where a number is expected.
Undefined == -999999
\* The JavaScript value NaN.
NaN == -999998

IsNum(v) == v # Undefined /\ v # NaN

\* Truthiness of a number-or-undefined (!!v, v ? a : b): 0, NaN and
\* undefined are falsy.
Truthy(v) == IsNum(v) /\ v # 0

JsAdd(a, b) == IF IsNum(a) /\ IsNum(b) THEN a + b ELSE NaN
JsSub(a, b) == IF IsNum(a) /\ IsNum(b) THEN a - b ELSE NaN
\* a >= b and a > b: false when either side is NaN or undefined.
JsGe(a, b) == IsNum(a) /\ IsNum(b) /\ a >= b
JsGt(a, b) == IsNum(a) /\ IsNum(b) /\ a > b

\* A quotient a / b kept as the pair <<numerator, denominator>>; NaN when an
\* operand is not a number.  (No modelled divisor is 0.)
NaNFrac == <<NaN, 1>>
JsDiv(a, b) == IF IsNum(a) /\ IsNum(b) /\ b # 0 THEN <<a, b>> ELSE NaNFrac
IsNumFrac(f) == IsNum(f[1])
One == <<1, 1>>
Zero == <<0, 1>>

\* Clock units per millisecond.
TimeScale == 3
\* 1000: the milliseconds in a second (1000 / fps) and the spike ceiling
\* (elapsed > 1000), in milliseconds.
MsPerSecond == 1000
SpikeCeiling == 1000

\* ------------------------------------------------------------ bounds

\* Number of gameLoop invocations explored.
MaxFrames == 5
\* Iterations of the drain loop after which an invocation counts as not
\* returning.
MaxDrain == 130
\* Number of start() calls explored.
MaxStarts == 1
\* Number of calls of the rate setters explored.
MaxChanges == 1

\* ------------------------------------------------------------ the scene

\* The display tree: the root container (the stage), a container in it, a
\* sprite in that container, and a sprite that is a child of the sprite.
Nodes == {"stage", "group", "ball", "decal"}
NewScene(sp) == [stage |-> sp, group |-> sp, ball |-> sp, decal |-> sp]
Root == "stage"
Children ==
    [stage |-> <<"group">>, group |-> <<"ball">>, ball |-> <<"decal">>,
     decal |-> <<>>]
\* Fault variant of IsSprite: every node passes the test.
IsAnyNode(n) == n \in Nodes

\* sprite instanceof this.Sprite
IsSprite(n) == n \in {"ball", "decal"}

LiveAttrs == {"x", "y", "rotation", "width", "height", "scaleX", "scaleY", "alpha"}

\* A node as constructed by the rendering engine: live attributes set, no
\* shadow field assigned yet.
NewSprite ==
    [x |-> 0, y |-> 0, rotation |-> 0, width |-> 800, height |-> 600,
     scaleX |-> 100, scaleY |-> 100, alpha |-> 100,
     _previousX |-> Undefined, _previousY |-> Undefined,
     _previousRotation |-> Undefined,
     _previousWidth |-> Undefined, _previousHeight |-> Undefined,
     _previousScaleX |-> Undefined, _previousScaleY |-> Undefined,
     _previousAlpha |-> Undefined,
     _currentX |-> Undefined, _currentY |-> Undefined,
     _currentRotation |-> Undefined,
     _currentWidth |-> Undefined, _currentHeight |-> Undefined,
     _currentScaleX |-> Undefined, _currentScaleY |-> Undefined,
     _currentAlpha |-> Undefined]

\* The live attribute values of a node, and of every node.
LiveOf(sp) ==
    [x |-> sp.x, y |-> sp.y, rotation |-> sp.rotation,
     width |-> sp.width, height |-> sp.height,
     scaleX |-> sp.scaleX, scaleY |-> sp.scaleY, alpha |-> sp.alpha]
Live(s) ==
    [stage |-> LiveOf(s.stage), group |-> LiveOf(s.group),
     ball |-> LiveOf(s.ball), decal |-> LiveOf(s.decal)]

\* The category of the properties option that governs each live attribute,
\* and the shadow field that capture fills for it (lines 303-320).
Category ==
    [x |-> "position", y |-> "position", rotation |-> "rotation",
     width |-> "size", height |-> "size",
     scaleX |-> "scale", scaleY |-> "scale", alpha |-> "alpha"]
PreviousField ==
    [x |-> "_previousX", y |-> "_previousY", rotation |-> "_previousRotation",
     width |-> "_previousWidth", height |-> "_previousHeight",
     scaleX |-> "_previousScaleX", scaleY |-> "_previousScaleY",
     alpha |-> "_previousAlpha"]

\* The shadow field that the interpolation fills for each live attribute
\* (lines 397-463).
CurrentField ==
    [x |-> "_currentX", y |-> "_currentY", rotation |-> "_currentRotation",
     width |-> "_currentWidth", height |-> "_currentHeight",
     scaleX |-> "_currentScaleX", scaleY |-> "_currentScaleY",
     alpha |-> "_currentAlpha"]

\* The nodes and attributes of enabled categories whose previous shadow
\* field differs from the live value: what a call of update finds not
\* captured.
Stale(s, props) ==
    {na \in Nodes \X LiveAttrs :
        /\ props[Category[na[2]]]
        /\ s[na[1]][PreviousField[na[2]]] # s[na[1]][na[2]]}

\* The(S): the element of a one-element set.  { e(v) : v \in {x} } evaluates
\* x once, however often e uses it.
The(S) == CHOOSE v \in S : TRUE

\* ------------------------------------------------- capture (lines 299-335)

\* Fault variant of setProperties: the rotation left out.
setPropertiesNoRotation(sp, props) ==
    [sp EXCEPT
        !._previousX = IF props.position THEN sp.x ELSE @,
        !._previousY = IF props.position THEN sp.y ELSE @,
        !._previousWidth = IF props.size THEN sp.width ELSE @,
        !._previousHeight = IF props.size THEN sp.height ELSE @,
        !._previousScaleX = IF props.scale THEN sp.scaleX ELSE @,
        !._previousScaleY = IF props.scale THEN sp.scaleY ELSE @,
        !._previousAlpha = IF props.alpha THEN sp.alpha ELSE @]

\* setProperties without its recursion (lines 303-320): copy the live value
\* of every enabled category into the node's previous shadow fields.
setProperties(sp, props) ==
    [sp EXCEPT
        !._previousX = IF props.position THEN sp.x ELSE @,
        !._previousY = IF props.position THEN sp.y ELSE @,
        !._previousRotation = IF props.rotation THEN sp.rotation ELSE @,
        !._previousWidth = IF props.size THEN sp.width ELSE @,
        !._previousHeight = IF props.size THEN sp.height ELSE @,
        !._previousScaleX = IF props.scale THEN sp.scaleX ELSE @,
        !._previousScaleY = IF props.scale THEN sp.scaleY ELSE @,
        !._previousAlpha = IF props.alpha THEN sp.alpha ELSE @]

\* The recursion of setProperties over the nodes still to visit, in
\* pre-order: a node, then its children, then the nodes after it.
RECURSIVE CaptureWalk(_, _, _)
CaptureWalk(nodes, list, props) ==
    The({ IF todo = <<>>
          THEN s
          ELSE CaptureWalk(
                   [s EXCEPT ![Head(todo)] = setProperties(@, props)],
                   Children[Head(todo)] \o Tail(todo), props)
          : s \in {nodes}, todo \in {list} })

\* Fault variant of capturePreviousSpriteProperties: the children of the
\* stage only, without their descendants.
captureTopLevelOnly(s, props) ==
    [n \in Nodes |->
        IF \E i \in DOMAIN Children[Root] : Children[Root][i] = n
        THEN setProperties(s[n], props)
        ELSE s[n]]

\* capturePreviousSpriteProperties: the walk starts at the children of the
\* stage.
capturePreviousSpriteProperties(s, props) ==
    CaptureWalk(s, Children[Root], props)

\* ------------------------------------------------- render (lines 381-505)

\* Fault variant of JsLerp: the difference taken the wrong way round.
JsLerpReversed(live, previous, tick) ==
    IF IsNum(live) /\ IsNum(previous) /\ IsNumFrac(tick)
    THEN ((previous - live) * tick[1]) \div tick[2] + previous
    ELSE NaN

\* (live - previous) * tick + previous
JsLerp(live, previous, tick) ==
    IF IsNum(live) /\ IsNum(previous) /\ IsNumFrac(tick)
    THEN ((live - previous) * tick[1]) \div tick[2] + previous
    ELSE NaN

\* The value written back to a live attribute: blended when the previous
\* shadow field has been assigned, left alone otherwise.
Blend(live, previous, tick) ==
    IF previous # Undefined THEN JsLerp(live, previous, tick) ELSE live

\* interpolateSprite without its recursion (lines 393-469): for every enabled
\* category save the live value in the current shadow field, then overwrite
\* the live value with the blend.  Size only for instances of Sprite.
interpolateSprite(sp, isSprite, props, tick) ==
    [sp EXCEPT
        !._currentX = IF props.position THEN sp.x ELSE @,
        !._currentY = IF props.position THEN sp.y ELSE @,
        !.x = IF props.position THEN Blend(sp.x, sp._previousX, tick) ELSE @,
        !.y = IF props.position THEN Blend(sp.y, sp._previousY, tick) ELSE @,
        !._currentRotation = IF props.rotation THEN sp.rotation ELSE @,
        !.rotation = IF props.rotation
                     THEN Blend(sp.rotation, sp._previousRotation, tick)
                     ELSE @,
        !._currentWidth = IF props.size /\ isSprite THEN sp.width ELSE @,
        !._currentHeight = IF props.size /\ isSprite THEN sp.height ELSE @,
        !.width = IF props.size /\ isSprite
                  THEN Blend(sp.width, sp._previousWidth, tick)
                  ELSE @,
        !.height = IF props.size /\ isSprite
                   THEN Blend(sp.height, sp._previousHeight, tick)
                   ELSE @,
        !._currentScaleX = IF props.scale THEN sp.scaleX ELSE @,
        !._currentScaleY = IF props.scale THEN sp.scaleY ELSE @,
        !.scaleX = IF props.scale
                   THEN Blend(sp.scaleX, sp._previousScaleX, tick)
                   ELSE @,
        !.scaleY = IF props.scale
                   THEN Blend(sp.scaleY, sp._previousScaleY, tick)
                   ELSE @,
        !._currentAlpha = IF props.alpha THEN sp.alpha ELSE @,
        !.alpha = IF props.alpha
                  THEN Blend(sp.alpha, sp._previousAlpha, tick)
                  ELSE @]

RECURSIVE InterpolateWalk(_, _, _, _)
InterpolateWalk(nodes, list, props, tick) ==
    The({ IF todo = <<>>
          THEN s
          ELSE InterpolateWalk(
                   [s EXCEPT ![Head(todo)] =
                       interpolateSprite(s[Head(todo)], IsSprite(Head(todo)),
                                         props, tick)],
                   Children[Head(todo)] \o Tail(todo), props, tick)
          : s \in {nodes}, todo \in {list} })

\* Fault variant of restoreSpriteProperties: size set back on every node,
\* whether or not the interpolation saved it.
restoreEveryNode(sp, isSprite, props) ==
    [sp EXCEPT
        !.x = IF props.position THEN sp._currentX ELSE @,
        !.y = IF props.position THEN sp._currentY ELSE @,
        !.rotation = IF props.rotation THEN sp._currentRotation ELSE @,
        !.width = IF props.size THEN sp._currentWidth ELSE @,
        !.height = IF props.size THEN sp._currentHeight ELSE @,
        !.scaleX = IF props.scale THEN sp._currentScaleX ELSE @,
        !.scaleY = IF props.scale THEN sp._currentScaleY ELSE @,
        !.alpha = IF props.alpha THEN sp._currentAlpha ELSE @]

\* restoreSpriteProperties without its recursion (lines 340-362): every
\* enabled category's live value is set back from its current shadow field.
restoreSpriteProperties(sp, isSprite, props) ==
    [sp EXCEPT
        !.x = IF props.position THEN sp._currentX ELSE @,
        !.y = IF props.position THEN sp._currentY ELSE @,
        !.rotation = IF props.rotation THEN sp._currentRotation ELSE @,
        !.width = IF props.size /\ isSprite THEN sp._currentWidth ELSE @,
        !.height = IF props.size /\ isSprite THEN sp._currentHeight ELSE @,
        !.scaleX = IF props.scale THEN sp._currentScaleX ELSE @,
        !.scaleY = IF props.scale THEN sp._currentScaleY ELSE @,
        !.alpha = IF props.alpha THEN sp._currentAlpha ELSE @]

RECURSIVE RestoreWalk(_, _, _)
RestoreWalk(nodes, list, props) ==
    The({ IF todo = <<>>
          THEN s
          ELSE RestoreWalk(
                   [s EXCEPT ![Head(todo)] =
                       restoreSpriteProperties(s[Head(todo)],
                                               IsSprite(Head(todo)), props)],
                   Children[Head(todo)] \o Tail(todo), props)
          : s \in {nodes}, todo \in {list} })

\* Fault variant of render: the walks made whether or not interpolation
\* is on.
renderAlwaysBlending(s, interp, props, tick) ==
    The({ [sprites |-> RestoreWalk(shown, Children[Root], props),
           drawn |-> Live(shown),
           calls |-> <<"interpolate", "draw", "restore">>]
          : shown \in {InterpolateWalk(s, Children[Root], props, tick)} })

\* render(tick): the interpolation walk when this.interpolate, one draw call
\* of the renderer, the restore walk when this.interpolate.  The result
\* holds the nodes after the call, what the draw call saw, and the calls
\* made, in order.
render(s, interp, props, tick) ==
    The({ [sprites |-> IF interp
                       THEN RestoreWalk(shown, Children[Root], props)
                       ELSE shown,
           drawn |-> Live(shown),
           calls |-> IF interp
                     THEN <<"interpolate", "draw", "restore">>
                     ELSE <<"draw">>]
          : shown \in {IF interp
                       THEN InterpolateWalk(s, Children[Root], props, tick)
                       ELSE s} })

\* ------------------------------------------ the logic callback (update)

\* What one call of the caller-supplied update callback adds to each live
\* attribute: like the repository's smoothie_update it moves nodes by a
\* velocity that it reverses (a bounce), here on every attribute of every
\* node so that each interpolated category has something to blend.
Velocity ==
    [x |-> 1000, y |-> 2000, rotation |-> 100, width |-> 400, height |-> 200,
     scaleX |-> 100, scaleY |-> 300, alpha |-> -100]
Gain == [stage |-> 1, group |-> 2, ball |-> 1, decal |-> 3]
\* The callback's own state: 0 moving out, 1 moving back.
Phases == {0, 1}
Direction(phase) == IF phase = 0 THEN 1 ELSE -1

\* One call of update on one node (the shadow fields are not touched), and
\* on every node.
Move(sp, k) ==
    [sp EXCEPT !.x = JsAdd(@, k * Velocity.x),
               !.y = JsAdd(@, k * Velocity.y),
               !.rotation = JsAdd(@, k * Velocity.rotation),
               !.width = JsAdd(@, k * Velocity.width),
               !.height = JsAdd(@, k * Velocity.height),
               !.scaleX = JsAdd(@, k * Velocity.scaleX),
               !.scaleY = JsAdd(@, k * Velocity.scaleY),
               !.alpha = JsAdd(@, k * Velocity.alpha)]
update(s, phase) ==
    [stage |-> Move(s.stage, Direction(phase) * Gain.stage),
     group |-> Move(s.group, Direction(phase) * Gain.group),
     ball |-> Move(s.ball, Direction(phase) * Gain.ball),
     decal |-> Move(s.decal, Direction(phase) * Gain.decal)]
NextPhase(phase) == 1 - phase

\* ------------------------------------------------------------ the state

VARIABLES
    \* construction
    options,            \* the argument of new Smoothie(...)
    status,             \* "new", "constructed", "threw", "hung"
    error,              \* which required option the thrown Error names
    \* fields of the Smoothie object
    properties, interpolate, paused,
    _fps, _frameDuration, _lag, _tick, _startTime,
    _renderStartTime, _renderFps, _renderDuration,
    \* the scene and the logic callback's state
    sprites, logic,
    \* the host: wall clock, requestAnimationFrame registrations for the next
    \* display refresh and callbacks of this refresh still to run
    clock, pending, due,
    \* exploration counters
    frames, starts, changes,
    \* observation of the latest gameLoop invocation
    obs,
    \* the live values as the logic callback alone has made them
    truth,
    \* totals over the drains since the logic rate was last set
    run,
    \* the latest drain: its timestamp, whether the render cap applied, and
    \* the render-tick duration then
    lastDrain

vars ==
    <<options, status, error, properties, interpolate, paused,
      _fps, _frameDuration, _lag, _tick, _startTime,
      _renderStartTime, _renderFps, _renderDuration,
      sprites, logic, clock, pending, due, frames, starts, changes,
      obs, truth, run, lastDrain>>

objectVars ==
    <<properties, interpolate, paused, _fps, _frameDuration, _lag, _tick,
      _startTime, _renderStartTime, _renderFps, _renderDuration>>

\* Date.now(): the wall clock in whole milliseconds.
DateNow(t) == (t \div TimeScale) * TimeScale

\* 1000 / fps when fps is truthy, undefined otherwise (lines 172, 177, 186,
\* 193).
DurationOf(fps) ==
    IF Truthy(fps) THEN (MsPerSecond * TimeScale) \div fps ELSE Undefined

\* ------------------------------------------ the constructor (lines 88-178)

\* Fault variant of DefaultProperties: every category on.
DefaultPropertiesAllOn ==
    [position |-> TRUE, rotation |-> TRUE,
     size |-> TRUE, scale |-> TRUE, alpha |-> TRUE]

\* { position: true, rotation: true } (line 139); the categories it leaves
\* out are undefined, which every test of them reads as false.
DefaultProperties ==
    [position |-> TRUE, rotation |-> TRUE,
     size |-> FALSE, scale |-> FALSE, alpha |-> FALSE]

\* The default value of the options parameter (lines 89-104), used when the
\* constructor is called with no argument.  For engine, renderer, root and
\* update, TRUE stands for a supplied value and FALSE for undefined.
DefaultArgument ==
    [given |-> FALSE,
     engine |-> FALSE, renderer |-> FALSE, root |-> FALSE, update |-> FALSE,
     interpolate |-> "true", fps |-> 60, renderFps |-> Undefined,
     properties |-> [defined |-> TRUE, value |-> DefaultProperties]]

\* Fault variant of MissingOption: the check of the update option left out.
MissingOptionLax(a) ==
    IF ~a.engine THEN "engine"
    ELSE IF ~a.renderer THEN "renderer"
    ELSE IF ~a.root THEN "root"
    ELSE "none"

\* The checks of lines 106-132 in their order: the required option whose
\* absence throws, "none" when nothing is thrown.
MissingOption(a) ==
    IF ~a.engine THEN "engine"
    ELSE IF ~a.renderer THEN "renderer"
    ELSE IF ~a.root THEN "root"
    ELSE IF ~a.update THEN "update"
    ELSE "none"

\* The outcome of new Smoothie(o): the error thrown, if any, and the fields
\* assigned otherwise.
Constructor(o, now) ==
    LET a == IF o.given THEN o ELSE DefaultArgument
        fps == a.fps
        renderFps == a.renderFps
    IN  [error |-> MissingOption(a),
         properties |-> IF a.properties.defined
                        THEN a.properties.value
                        ELSE DefaultProperties,
         _fps |-> fps,
         _renderFps |-> renderFps,
         interpolate |-> (a.interpolate # "false"),
         paused |-> FALSE,
         _startTime |-> now,
         _frameDuration |-> DurationOf(fps),
         _lag |-> 0,
         _tick |-> Zero,
         _renderStartTime |-> 0,
         _renderDuration |-> DurationOf(renderFps)]

\* ------------------------------------------ doInterpolate (lines 217-254)

\* Fault variant of Pass: update called before the capture.
PassUpdateFirst(state, frameDuration, props) ==
    The({ IF acc.returned \/ acc.stuck
          THEN acc
          ELSE IF ~JsGe(acc.lag, frameDuration)
          THEN [acc EXCEPT !.returned = TRUE]
          ELSE IF acc.updates = MaxDrain
          THEN [acc EXCEPT !.stuck = TRUE]
          ELSE The({ [lag |-> JsSub(acc.lag, frameDuration),
                      sprites |-> capturePreviousSpriteProperties(
                                      moved, props),
                      logic |-> NextPhase(acc.logic),
                      truth |-> update(acc.truth, acc.logic),
                      stale |-> acc.stale \cup Stale(acc.sprites, props),
                      sawTruth |-> acc.sawTruth
                                   /\ Live(acc.sprites) = acc.truth,
                      updates |-> acc.updates + 1,
                      calls |-> acc.calls \o <<"update", "capture">>,
                      returned |-> FALSE,
                      stuck |-> FALSE]
                     : moved \in {update(acc.sprites, acc.logic)} })
          : acc \in {state} })

\* One test of the condition of the while loop of doInterpolate (lines
\* 237-248) and, when it holds, one pass of the body: capture, update,
\* subtract the tick duration.  returned is set once the condition is
\* false; stuck is set when the condition still holds after MaxDrain passes.
Pass(state, frameDuration, props) ==
    The({ IF acc.returned \/ acc.stuck
          THEN acc
          ELSE IF ~JsGe(acc.lag, frameDuration)
          THEN [acc EXCEPT !.returned = TRUE]
          ELSE IF acc.updates = MaxDrain
          THEN [acc EXCEPT !.stuck = TRUE]
          ELSE The({ [lag |-> JsSub(acc.lag, frameDuration),
                      sprites |-> update(captured, acc.logic),
                      logic |-> NextPhase(acc.logic),
                      truth |-> update(acc.truth, acc.logic),
                      stale |-> acc.stale \cup Stale(captured, props),
                      sawTruth |-> acc.sawTruth
                                   /\ Live(acc.sprites) = acc.truth,
                      updates |-> acc.updates + 1,
                      calls |-> acc.calls \o <<"capture", "update">>,
                      returned |-> FALSE,
                      stuck |-> FALSE]
                     : captured \in {capturePreviousSpriteProperties(
                                         acc.sprites, props)} })
          : acc \in {state} })

\* The while loop: passes until the condition is false.  (Taken four at a
\* time, which keeps the evaluation shallow.)
RECURSIVE DrainLoop(_, _, _)
DrainLoop(start, frameDuration, props) ==
    The({ IF acc.returned \/ acc.stuck
          THEN acc
          ELSE DrainLoop(acc, frameDuration, props)
          : acc \in {Pass(Pass(Pass(Pass(start, frameDuration, props),
                                     frameDuration, props),
                                frameDuration, props),
                           frameDuration, props)} })

\* Fault variant of Elapsed: the measured time whatever its size.
ElapsedUnclamped(measured, frameDuration) == measured

\* elapsed as accumulated (lines 222-226): the measured time, or one tick
\* duration when the measured time is above the ceiling.
Elapsed(measured, frameDuration) ==
    IF measured > SpikeCeiling * TimeScale THEN frameDuration ELSE measured

\* What doInterpolate leaves once its loop has ended in the state loop:
\* lines 252-253.
Rendered(loop, now, tick) ==
    The({ [returned |-> loop.returned,
           _startTime |-> now,
           _lag |-> loop.lag,
           _tick |-> tick,
           sprites |-> r.sprites,
           logic |-> loop.logic,
           truth |-> loop.truth,
           sawTruth |-> loop.sawTruth,
           stale |-> loop.stale,
           updates |-> loop.updates,
           calls |-> loop.calls \o r.calls,
           drawn |-> r.drawn,
           pre |-> loop.sprites,
           measured |-> now - _startTime,
           elapsed |-> Elapsed(now - _startTime, _frameDuration)]
          : r \in {render(loop.sprites, interpolate, properties, tick)} })

\* Fault variant of doInterpolate: the loop starts from the elapsed time
\* alone, the lag left by the previous call being dropped.
doInterpolateForgetful(now) ==
    The({ Rendered(loop, now, JsDiv(loop.lag, _frameDuration))
          : loop \in {DrainLoop(
                [lag |-> Elapsed(now - _startTime, _frameDuration),
                 sprites |-> sprites, logic |-> logic, truth |-> truth,
                 stale |-> {},
                 sawTruth |-> TRUE, updates |-> 0, calls |-> <<>>,
                 returned |-> FALSE, stuck |-> FALSE],
                _frameDuration, properties)} })

\* doInterpolate with Date.now() = now.
doInterpolate(now) ==
    The({ Rendered(loop, now, JsDiv(loop.lag, _frameDuration))
          : loop \in {DrainLoop(
                [lag |-> JsAdd(_lag, Elapsed(now - _startTime, _frameDuration)),
                 sprites |-> sprites, logic |-> logic, truth |-> truth,
                 stale |-> {},
                 sawTruth |-> TRUE, updates |-> 0, calls |-> <<>>,
                 returned |-> FALSE, stuck |-> FALSE],
                _frameDuration, properties)} })

\* ------------------------------------------------ gameLoop (lines 258-292)

\* What the observation records of an invocation that does not render.
Unobserved(kind, timestamp, calls) ==
    [kind |-> kind, paused |-> paused, timestamp |-> timestamp,
     calls |-> calls, drawn |-> Live(sprites), pre |-> sprites,
     tick |-> Zero, measured |-> 0, lagBefore |-> _lag,
     frameDuration |-> _frameDuration, updates |-> 0, sawTruth |-> TRUE,
     stale |-> {}, capped |-> FALSE]

\* Fault variant of Idle: the renderer is asked to draw all the same.
IdleDrawing(kind, timestamp) ==
    /\ obs' = Unobserved(kind, timestamp,
                         <<"requestAnimationFrame", "draw">>)
    /\ UNCHANGED <<objectVars, sprites, logic, truth, run, lastDrain, status>>

\* The branch taken while paused, and the branch skipped by the render cap:
\* nothing but the registration of the next callback.
Idle(kind, timestamp) ==
    /\ obs' = Unobserved(kind, timestamp, <<"requestAnimationFrame">>)
    /\ UNCHANGED <<objectVars, sprites, logic, truth, run, lastDrain, status>>

\* Fault variant of DefaultTick: a default of 0.
StaleTick == Zero

\* The default value of the parameter of render (line 381).
DefaultTick == One

\* Lines 271-272: update(), then render() with the default tick.
Uncapped(timestamp) ==
    \E moved \in {update(sprites, logic)} :
    \E r \in {render(moved, interpolate, properties, DefaultTick)} :
        /\ sprites' = r.sprites
        /\ logic' = NextPhase(logic)
        /\ truth' = update(truth, logic)
        /\ obs' = [kind |-> "uncapped", paused |-> paused,
                   timestamp |-> timestamp,
                   calls |-> <<"requestAnimationFrame", "update">> \o r.calls,
                   drawn |-> r.drawn, pre |-> moved, tick |-> DefaultTick,
                   measured |-> 0, lagBefore |-> _lag,
                   frameDuration |-> _frameDuration, updates |-> 1,
                   sawTruth |-> (Live(sprites) = truth),
                   stale |-> Stale(sprites, properties), capped |-> FALSE]
        /\ UNCHANGED <<objectVars, run, lastDrain, status>>

\* Fault variant of NextRenderTime: the render-tick duration not added.
NextRenderTimeStale(timestamp) == timestamp

\* The test of line 279 and the assignment of line 287.
RenderIsDue(timestamp) == JsGe(timestamp, _renderStartTime)
NextRenderTime(timestamp) == JsAdd(timestamp, _renderDuration)

\* Lines 275 and 283-287: doInterpolate(), and under the render cap the
\* next render time.  An invocation whose drain loop does not return leaves
\* the program in that loop.
Drain(timestamp, capped) ==
    \E d \in {doInterpolate(DateNow(timestamp))} :
        IF ~d.returned
        THEN /\ status' = "hung"
             /\ obs' = Unobserved("hung", timestamp, <<"requestAnimationFrame">>)
             /\ UNCHANGED <<objectVars, sprites, logic, truth, run, lastDrain>>
        ELSE /\ _startTime' = d._startTime
             /\ _lag' = d._lag
             /\ _tick' = d._tick
             /\ _renderStartTime' = IF capped
                                    THEN NextRenderTime(timestamp)
                                    ELSE _renderStartTime
             /\ sprites' = d.sprites
             /\ logic' = d.logic
             /\ truth' = d.truth
             /\ obs' = [kind |-> "drain", paused |-> paused,
                        timestamp |-> timestamp,
                        calls |-> <<"requestAnimationFrame">> \o d.calls,
                        drawn |-> d.drawn, pre |-> d.pre, tick |-> d._tick,
                        measured |-> d.measured, lagBefore |-> _lag,
                        frameDuration |-> _frameDuration,
                        updates |-> d.updates, sawTruth |-> d.sawTruth,
                        stale |-> d.stale, capped |-> capped]
             /\ run' = [run EXCEPT !.sum = @ + d.measured,
                                   !.effective = JsAdd(@, d.elapsed),
                                   !.updates = @ + d.updates,
                                   !.drains = @ + 1]
             /\ lastDrain' = [timestamp |-> timestamp, capped |-> capped,
                              renderDuration |-> _renderDuration]
             /\ UNCHANGED <<properties, interpolate, paused, _fps,
                            _frameDuration, _renderFps, _renderDuration,
                            status>>

\* One invocation of the callback by the host, delta after the previous
\* one: 0 for a further callback of the same display refresh, positive for
\* the first callback of the next refresh.  The timestamp argument and
\* Date.now() read the same clock.
gameLoop(delta) ==
    /\ status = "constructed"
    /\ frames < MaxFrames
    /\ IF due > 0
       THEN delta = 0 /\ due' = due - 1 /\ pending' = pending + 1
       ELSE pending > 0 /\ delta > 0 /\ due' = pending - 1 /\ pending' = 1
    /\ clock' = clock + delta
    /\ frames' = frames + 1
    /\ LET timestamp == clock + delta
       IN  IF paused
           THEN Idle("paused", timestamp)
           ELSE IF _fps = Undefined
           THEN Uncapped(timestamp)
           ELSE IF _renderFps = Undefined \/ _renderDuration = Undefined
           THEN Drain(timestamp, FALSE)
           ELSE IF RenderIsDue(timestamp)
           THEN Drain(timestamp, TRUE)
           ELSE Idle("skipped", timestamp)
    /\ UNCHANGED <<options, error, starts, changes>>

\* ------------------------------------- the other operations (lines 183-210)

\* Fault variant of SetFps: the lag cleared with the change of rate.
SetFpsClearingLag(value) ==
    /\ status = "constructed"
    /\ changes < MaxChanges
    /\ changes' = changes + 1
    /\ _fps' = value
    /\ _frameDuration' = DurationOf(value)
    /\ _lag' = 0
    /\ run' = IF DurationOf(value) = _frameDuration
              THEN run
              ELSE [lagBefore |-> _lag, sum |-> 0, effective |-> 0,
                    updates |-> 0, drains |-> 0]
    /\ UNCHANGED <<options, status, error, properties, interpolate, paused,
                   _tick, _startTime, _renderStartTime, _renderFps,
                   _renderDuration, sprites, logic, clock, pending, due,
                   frames, starts, obs, truth, lastDrain>>

\* set fps(value)
SetFps(value) ==
    /\ status = "constructed"
    /\ changes < MaxChanges
    /\ changes' = changes + 1
    /\ _fps' = value
    /\ _frameDuration' = DurationOf(value)
    /\ run' = IF DurationOf(value) = _frameDuration
              THEN run
              ELSE [lagBefore |-> _lag, sum |-> 0, effective |-> 0,
                    updates |-> 0, drains |-> 0]
    /\ UNCHANGED <<options, status, error, properties, interpolate, paused,
                   _lag, _tick, _startTime, _renderStartTime, _renderFps,
                   _renderDuration, sprites, logic, clock, pending, due,
                   frames, starts, obs, truth, lastDrain>>

\* set renderFps(value)
SetRenderFps(value) ==
    /\ status = "constructed"
    /\ changes < MaxChanges
    /\ changes' = changes + 1
    /\ _renderFps' = value
    /\ _renderDuration' = DurationOf(value)
    /\ UNCHANGED <<options, status, error, properties, interpolate, paused,
                   _fps, _frameDuration, _lag, _tick, _startTime,
                   _renderStartTime, sprites, logic, clock, pending, due,
                   frames, starts, obs, truth, run, lastDrain>>

pause ==
    /\ status = "constructed"
    /\ paused' = TRUE
    /\ UNCHANGED <<options, status, error, properties, interpolate,
                   _fps, _frameDuration, _lag, _tick, _startTime,
                   _renderStartTime, _renderFps, _renderDuration,
                   sprites, logic, clock, pending, due,
                   frames, starts, changes, obs, truth, run, lastDrain>>

\* Fault variant of resume: the last-update timestamp set to the time of
\* the call.
resumeResettingClock ==
    /\ status = "constructed"
    /\ paused' = FALSE
    /\ _startTime' = DateNow(clock)
    /\ UNCHANGED <<options, status, error, properties, interpolate,
                   _fps, _frameDuration, _lag, _tick,
                   _renderStartTime, _renderFps, _renderDuration,
                   sprites, logic, clock, pending, due,
                   frames, starts, changes, obs, truth, run, lastDrain>>

resume ==
    /\ status = "constructed"
    /\ paused' = FALSE
    /\ UNCHANGED <<options, status, error, properties, interpolate,
                   _fps, _frameDuration, _lag, _tick, _startTime,
                   _renderStartTime, _renderFps, _renderDuration,
                   sprites, logic, clock, pending, due,
                   frames, starts, changes, obs, truth, run, lastDrain>>

\* Fault variant of startWithin: a registration only when none is held.
startIfIdle(limit) ==
    /\ status = "constructed"
    /\ starts < limit
    /\ starts' = starts + 1
    /\ pending' = IF pending + due = 0 THEN 1 ELSE pending
    /\ UNCHANGED <<options, status, error, objectVars, sprites, logic, clock,
                   due, frames, changes, obs, truth, run, lastDrain>>

\* start(): one more registration with requestAnimationFrame (line 209),
\* explored for up to limit calls.
startWithin(limit) ==
    /\ status = "constructed"
    /\ starts < limit
    /\ starts' = starts + 1
    /\ pending' = pending + 1
    /\ UNCHANGED <<options, status, error, objectVars, sprites, logic, clock,
                   due, frames, changes, obs, truth, run, lastDrain>>

\* start(), explored for up to MaxStarts calls.
start == startWithin(MaxStarts)

\* new Smoothie(options)
Construct ==
    /\ status = "new"
    /\ \E c \in {Constructor(options, DateNow(clock))} :
           IF c.error # "none"
           THEN /\ status' = "threw"
                /\ error' = c.error
                /\ UNCHANGED <<objectVars, run>>
           ELSE /\ status' = "constructed"
                /\ error' = "none"
                /\ properties' = c.properties
                /\ interpolate' = c.interpolate
                /\ paused' = c.paused
                /\ _fps' = c._fps
                /\ _frameDuration' = c._frameDuration
                /\ _lag' = c._lag
                /\ _tick' = c._tick
                /\ _startTime' = c._startTime
                /\ _renderStartTime' = c._renderStartTime
                /\ _renderFps' = c._renderFps
                /\ _renderDuration' = c._renderDuration
                /\ run' = [lagBefore |-> c._lag, sum |-> 0, effective |-> 0,
                           updates |-> 0, drains |-> 0]
    /\ UNCHANGED <<options, sprites, logic, clock, pending, due, frames,
                   starts, changes, obs, truth, lastDrain>>

\* ------------------------------------------------------ specifications

\* The arguments of the constructor: no argument at all, or an object with
\* each required option present or absent and the optional ones drawn from
\* the given sets.
OptionSpace(fpsSet, renderFpsSet, interpolateSet, propertiesSet) ==
    {DefaultArgument} \cup
    [given : {TRUE},
     engine : BOOLEAN, renderer : BOOLEAN, root : BOOLEAN, update : BOOLEAN,
     interpolate : interpolateSet, fps : fpsSet, renderFps : renderFpsSet,
     properties : propertiesSet]

AllProperties ==
    [position : BOOLEAN, rotation : BOOLEAN, size : BOOLEAN,
     scale : BOOLEAN, alpha : BOOLEAN]
EveryProperty ==
    [position |-> TRUE, rotation |-> TRUE,
     size |-> TRUE, scale |-> TRUE, alpha |-> TRUE]
NoPropertiesOption == [defined |-> FALSE, value |-> DefaultProperties]

\* The state before new Smoothie(o) for o in the given set.  The fields of
\* the object do not exist yet; they are shown unassigned.
InitWith(optionSet) ==
    /\ options \in optionSet
    /\ status = "new"
    /\ error = "none"
    /\ properties = DefaultProperties
    /\ interpolate = FALSE
    /\ paused = FALSE
    /\ _fps = Undefined
    /\ _frameDuration = Undefined
    /\ _lag = Undefined
    /\ _tick = Zero
    /\ _startTime = Undefined
    /\ _renderStartTime = Undefined
    /\ _renderFps = Undefined
    /\ _renderDuration = Undefined
    /\ sprites = NewScene(NewSprite)
    /\ logic = 0
    /\ clock = 0
    /\ pending = 0
    /\ due = 0
    /\ frames = 0
    /\ starts = 0
    /\ changes = 0
    /\ obs = [kind |-> "none", paused |-> FALSE, timestamp |-> 0,
              calls |-> <<>>, drawn |-> Live(NewScene(NewSprite)),
              pre |-> NewScene(NewSprite), tick |-> Zero,
              measured |-> 0, lagBefore |-> Undefined,
              frameDuration |-> Undefined, updates |-> 0, sawTruth |-> TRUE,
              stale |-> {}, capped |-> FALSE]
    /\ truth = Live(NewScene(NewSprite))
    /\ run = [lagBefore |-> Undefined, sum |-> 0, effective |-> 0,
              updates |-> 0, drains |-> 0]
    /\ lastDrain = [timestamp |-> Undefined, capped |-> FALSE,
                    renderDuration |-> Undefined]

\* The arguments with every required option present.
Complete(optionSet) ==
    {o \in optionSet :
        o.given /\ o.engine /\ o.renderer /\ o.root /\ o.update}

\* Logic rates: none, 60/s, 30/s, and 0, which the constructor and the
\* setter equally accept.
FpsValues == {Undefined, 60, 30, 0}
\* Render rates: none, 30/s.
RenderFpsValues == {Undefined, 30}
\* Time between display refreshes: 1/60 s, and a gap of 1001 ms.
Deltas == {50, 3003}

\* The loop under every rate, with pauses and changes of rate, for the
\* default properties (position and rotation).
Init ==
    InitWith(Complete(OptionSpace(FpsValues, RenderFpsValues, {"undefined"},
                                  {NoPropertiesOption})))

Next ==
    \/ Construct
    \/ start
    \/ \E delta \in Deltas \cup {0} : gameLoop(delta)
    \/ \E value \in FpsValues : SetFps(value)
    \/ \E value \in RenderFpsValues : SetRenderFps(value)
    \/ pause
    \/ resume

Spec == Init /\ [][Next]_vars

\* Rendering under every combination of the properties option, with and
\* without interpolation, at 30 updates a second and with no logic rate,
\* on a display refreshing 60 times a second.
RenderInit ==
    InitWith(Complete(OptionSpace(
        {30, Undefined}, {Undefined}, {"undefined", "false"},
        {NoPropertiesOption} \cup [defined : {TRUE}, value : AllProperties])))

RenderNext ==
    \/ Construct
    \/ start
    \/ gameLoop(50)
    \/ \E value \in {30, Undefined} : SetFps(value)
    \/ pause
    \/ resume

RenderSpec == RenderInit /\ [][RenderNext]_vars

\* Construction with every subset of the required options present, and
\* with no argument, followed by the loop.
ConstructInit ==
    InitWith(OptionSpace({Undefined, 60, -60}, RenderFpsValues,
                         {"undefined", "true", "false"},
                         {NoPropertiesOption,
                          [defined |-> TRUE, value |-> EveryProperty]}))

ConstructNext ==
    \/ Construct
    \/ start
    \/ \E delta \in Deltas : gameLoop(delta)

ConstructSpec == ConstructInit /\ [][ConstructNext]_vars

\* The loop under a host that keeps running the callbacks registered with
\* requestAnimationFrame: as long as a callback is registered and the
\* previous one has returned, another invocation follows.
LiveInit ==
    InitWith(Complete(OptionSpace({Undefined, 60, -60}, RenderFpsValues,
                                  {"undefined"}, {NoPropertiesOption})))

LiveNext ==
    \/ Construct
    \/ start
    \/ \E delta \in Deltas \cup {0} : gameLoop(delta)
    \/ pause
    \/ resume

LiveSpec ==
    /\ LiveInit
    /\ [][LiveNext]_vars
    /\ WF_vars(\E delta \in Deltas \cup {0} : gameLoop(delta))

\* The loop under changes of the logic rate between 1 update a second, 60
\* a second and -60, which the constructor and the setter equally accept,
\* on a display that refreshes after 1/60 s or after 999 ms.
RateValues == {1, 60, -60}
RateDeltas == {50, 2997}

RateInit ==
    InitWith(Complete(OptionSpace(RateValues, {Undefined}, {"undefined"},
                                  {NoPropertiesOption})))

RateNext ==
    \/ Construct
    \/ start
    \/ \E delta \in RateDeltas : gameLoop(delta)
    \/ \E value \in RateValues : SetFps(value)
    \/ pause
    \/ resume

RateSpec == RateInit /\ [][RateNext]_vars

\* The loop started up to MaxRestarts times, with pauses, on a display
\* refreshing 60 times a second: the callbacks registered for a refresh run
\* one after the other at the same timestamp.
MaxRestarts == 3

StartInit ==
    InitWith(Complete(OptionSpace({Undefined, 60}, RenderFpsValues,
                                  {"undefined"}, {NoPropertiesOption})))

StartNext ==
    \/ Construct
    \/ startWithin(MaxRestarts)
    \/ \E delta \in {0, 50} : gameLoop(delta)
    \/ pause
    \/ resume

StartSpec == StartInit /\ [][StartNext]_vars

\* ------------------------------------------------------------ properties

\* How often a call occurs in a log of calls, and where it first occurs.
Count(log, call) == Cardinality({i \in DOMAIN log : log[i] = call})
Position(log, call) == CHOOSE i \in DOMAIN log : log[i] = call

\* A step that is one invocation of gameLoop.
Invoked == frames' = frames + 1

\* The latest invocation rendered, and rendered with the interpolation walk.
Drew == obs.kind \in {"drain", "uncapped"}
Interpolated == Drew /\ Count(obs.calls, "interpolate") = 1

\* previous + (live - previous) * fraction
Between(previous, live, fraction) ==
    previous + ((live - previous) * fraction[1]) \div fraction[2]

\* The value attribute a of node n must have had during the latest draw call
\* if blending applies to it (blended) and if it does not.
Shown(n, a, blended) ==
    IF blended /\ obs.pre[n][PreviousField[a]] # Undefined
    THEN Between(obs.pre[n][PreviousField[a]], obs.pre[n][a], obs.tick)
    ELSE obs.pre[n][a]

\* ---- C1

\* The case of C1: a positive tick duration unchanged over at least one
\* drain, starting from a numeric lag.
SteadyRun ==
    /\ status = "constructed"
    /\ IsNum(_frameDuration) /\ _frameDuration > 0
    /\ IsNum(run.lagBefore) /\ run.lagBefore >= 0
    /\ run.drains > 0

C2_LagInRange ==
    obs.kind = "drain" =>
        /\ IsNum(_lag) /\ IsNum(obs.frameDuration)
        /\ 0 <= _lag /\ _lag < obs.frameDuration

\* ---- C3

\* C3: the fraction read through dt is always in [0, 1]; immediately after a
\* drain it is lag / tick duration and below 1.
C3_FractionInRange ==
    status = "constructed" =>
        /\ IsNumFrac(_tick)
        /\ 0 <= _tick[1] /\ _tick[1] <= _tick[2]
        /\ obs.kind = "drain" =>
               /\ _tick = JsDiv(_lag, obs.frameDuration)
               /\ _tick[1] < _tick[2]

\* ---- C4

\* C4: after a render the live attribute values of every node are those of
\* just before it; every update call found the live values as update calls
\* alone had made them, and so they are between invocations.
C4_RenderRestores ==
    /\ Drew => Live(sprites) = Live(obs.pre) /\ obs.sawTruth
    /\ Live(sprites) = truth

\* A render with every category enabled that drew blended values, after
\* which the live values are back.
C4_Witness ==
    /\ Interpolated
    /\ properties = EveryProperty
    /\ obs.updates >= 1
    /\ obs.drawn # Live(obs.pre)
    /\ obs.drawn.ball.width # obs.pre.ball.width
    /\ Live(sprites) = Live(obs.pre)

\* ---- C5

\* C5 as stated: during the draw call of an interpolating render every
\* attribute of an enabled category holds the blend on every node that has
\* the previous shadow value, and the live value otherwise; after the render
\* the live values are back.
C5_EveryNodeBlended ==
    (Interpolated /\ IsNumFrac(obs.tick)) =>
        /\ \A n \in Nodes : \A a \in LiveAttrs :
               obs.drawn[n][a] = Shown(n, a, properties[Category[a]])
        /\ Live(sprites) = Live(obs.pre)

\* C5 amended: as stated for position, rotation, scale and alpha; width and
\* height are blended only on nodes that are instances of Sprite, and hold
\* the live value on every other node even when it has previous shadow
\* values.
C5_BlendedWhereInterpolated ==
    (Interpolated /\ IsNumFrac(obs.tick)) =>
        /\ \A n \in Nodes : \A a \in LiveAttrs :
               obs.drawn[n][a] =
                   Shown(n, a, properties[Category[a]]
                               /\ (Category[a] = "size" => IsSprite(n)))
        /\ Live(sprites) = Live(obs.pre)

\* A sprite moved from x = 0 to x = 1000 by one update is drawn at x = 500
\* for the fraction 1/2 and is at 1000 after the render, while a container
\* with a previous width is drawn with its live width.
C5_Witness ==
    /\ Interpolated
    /\ properties.position /\ properties.size
    /\ obs.tick = <<50, 100>>
    /\ obs.pre.ball._previousX = 0 /\ obs.pre.ball.x = 1000
    /\ obs.drawn.ball.x = 500
    /\ sprites.ball.x = 1000
    /\ obs.pre.group._previousWidth # Undefined
    /\ obs.pre.group._previousWidth # obs.pre.group.width
    /\ obs.drawn.group.width = obs.pre.group.width

\* ---- C6

\* C6: a drain that measures more than 1000 ms, with a positive tick
\* duration and the lag in [0, tick duration), makes exactly one update call
\* and leaves the lag as it found it.
C6_SpikeIsOneTick ==
    (/\ obs.kind = "drain"
     /\ obs.measured > SpikeCeiling * TimeScale
     /\ IsNum(obs.frameDuration) /\ obs.frameDuration > 0
     /\ IsNum(obs.lagBefore)
     /\ 0 <= obs.lagBefore /\ obs.lagBefore < obs.frameDuration)
    => obs.updates = 1 /\ _lag = obs.lagBefore

\* A drain after 1001 ms at 60 updates a second that found 16 ms of lag.
C6_Witness ==
    /\ obs.kind = "drain"
    /\ obs.measured = 3003
    /\ obs.frameDuration = 50
    /\ obs.lagBefore = 48
    /\ obs.updates = 1
    /\ _lag = 48

\* ---- C7

\* The render cap applies: a logic rate and a render rate are set.
Capped ==
    _fps # Undefined /\ _renderFps # Undefined /\ _renderDuration # Undefined

\* C7: under the render cap an invocation that is not paused drains exactly
\* when its timestamp has reached the next render time, and the drain sets
\* the next render time to the timestamp plus the render-tick duration; two
\* capped drains in a row are at least a render-tick duration apart; at 60
\* updates and 30 renders a second, the first invocation of a display
\* refresh 1/60 s after a refresh that ended under the cap drains exactly
\* when no invocation of that refresh drained.
C7_RenderCap ==
    [][ (Invoked /\ ~paused /\ Capped) =>
            /\ (obs'.kind = "drain") <=> (clock' >= _renderStartTime)
            /\ obs'.kind \in {"drain", "skipped"}
            /\ obs'.kind = "drain" =>
                   /\ obs'.capped
                   /\ _renderStartTime' = clock' + _renderDuration
            /\ obs'.kind = "skipped" =>
                   _renderStartTime' = _renderStartTime
            /\ (obs'.kind = "drain" /\ lastDrain.capped) =>
                   clock' - lastDrain.timestamp >= lastDrain.renderDuration
            /\ (/\ _fps = 60 /\ _renderFps = 30
                /\ clock' - clock = 50
                /\ obs.timestamp = clock
                /\ \/ obs.kind = "skipped"
                   \/ obs.kind = "drain" /\ obs.capped) =>
                   ((obs'.kind = "drain") <=>
                        ~(lastDrain.capped /\ lastDrain.timestamp = clock))
      ]_vars

\* Four invocations 1/60 s apart at 60 updates and 30 renders a second: the
\* first and third drained, the second and fourth were skipped.
C7_Witness ==
    /\ _fps = 60 /\ _renderFps = 30 /\ changes = 0
    /\ frames = 4 /\ clock = 200
    /\ run.drains = 2
    /\ lastDrain.timestamp = 150 /\ lastDrain.capped
    /\ obs.kind = "skipped" /\ obs.timestamp = 200
    /\ _renderStartTime = 250

\* ---- C8

\* C8: with no logic rate an invocation that is not paused calls update
\* once and then draw once, and the draw call sees on every node the live
\* values that update left, which are the values update calls alone make.
C8_UncappedDrawsTruth ==
    [][ (Invoked /\ ~paused /\ _fps = Undefined) =>
            /\ obs'.kind = "uncapped"
            /\ Count(obs'.calls, "update") = 1
            /\ Count(obs'.calls, "draw") = 1
            /\ Position(obs'.calls, "update") < Position(obs'.calls, "draw")
            /\ obs'.drawn = Live(obs'.pre)
            /\ obs'.drawn = truth'
            /\ obs'.pre = update(sprites, logic)
      ]_vars

\* An invocation with no logic rate and with interpolation on, on nodes
\* whose previous shadow values differ from their live values.
C8_Witness ==
    /\ obs.kind = "uncapped"
    /\ Interpolated
    /\ properties = EveryProperty
    /\ obs.pre.ball._previousX # Undefined
    /\ obs.pre.ball._previousX # obs.pre.ball.x
    /\ obs.pre.decal._previousAlpha # Undefined
    /\ obs.pre.decal._previousAlpha # obs.pre.decal.alpha
    /\ obs.drawn = Live(obs.pre)

\* ---- C9

\* C9: an invocation while paused registers the next callback and calls
\* nothing else, so the scene and the logic are as before it, and it leaves
\* the object paused; this in every mode.
C9_PausedDoesNothing ==
    [][ (Invoked /\ paused) =>
            /\ obs'.calls = <<"requestAnimationFrame">>
            /\ pending' >= 1
            /\ paused'
            /\ sprites' = sprites /\ logic' = logic /\ truth' = truth
            /\ _lag' = _lag /\ _tick' = _tick
      ]_vars

\* An invocation while paused under the render cap, after the loop had
\* made update calls.
C9_Witness ==
    /\ paused
    /\ obs.kind = "paused" /\ obs.paused
    /\ obs.calls = <<"requestAnimationFrame">>
    /\ Capped
    /\ run.updates >= 1
    /\ frames >= 3

\* ---- C10

\* Every required option is present in the argument.
AllRequired(o) == o.given /\ o.engine /\ o.renderer /\ o.root /\ o.update

\* C10: construction throws exactly when a required option is absent,
\* which includes the call with no argument; the error thrown names a
\* required option that is absent; otherwise the object is constructed.
C10_ThrowsIffMissing ==
    status # "new" =>
        /\ (status = "threw") <=> ~AllRequired(options)
        /\ status = "threw" =>
               /\ error \in {"engine", "renderer", "root", "update"}
               /\ ~options.given \/ ~options[error]
        /\ status # "threw" => error = "none"

\* Construction without the update option, everything else present, threw
\* the error about update.
C10_Witness ==
    /\ status = "threw"
    /\ options.given
    /\ options.engine /\ options.renderer /\ options.root
    /\ ~options.update
    /\ error = "update"

\* ---- C11

\* C11: the tick durations follow the rates at once (undefined exactly when
\* the rate is none, 1000 / rate otherwise), and a drain never runs with an
\* undefined tick duration.
C11_DurationsFollowRates ==
    status = "constructed" =>
        /\ (_fps = Undefined) <=> (_frameDuration = Undefined)
        /\ IsNum(_frameDuration) =>
               _frameDuration * _fps = MsPerSecond * TimeScale
        /\ (_renderFps = Undefined) <=> (_renderDuration = Undefined)
        /\ IsNum(_renderDuration) =>
               _renderDuration * _renderFps = MsPerSecond * TimeScale
        /\ obs.kind = "drain" => IsNum(obs.frameDuration)

\* ---- C12

C13_LoopKeepsRunning ==
    /\ [][ Invoked =>
               /\ obs'.calls[1] = "requestAnimationFrame"
               /\ Count(obs'.calls, "requestAnimationFrame") = 1
               /\ pending' + due' = pending + due
               /\ pending' >= 1
         ]_vars
    /\ \A k \in 0..(MaxFrames - 1) :
           (pending > 0 /\ frames = k) ~> (frames > k)
    /\ \A k \in 0..(MaxFrames - 2) :
           (pending > 0 /\ frames = k /\ ~paused)
               ~> (paused \/ (frames > k /\ Drew))

\* ---- C14

\* The calls of a render: the two walks around the one draw call when
\* interpolation is on, the draw call alone when it is off.
RenderCalls ==
    IF interpolate THEN <<"interpolate", "draw", "restore">> ELSE <<"draw">>

\* C14: after the registration of the next callback, the calls of a drain
\* are one capture and one update per tick, each capture directly before
\* its update, and then those of one render: the interpolation walk, one
\* draw call, the restore walk (the walks being made when interpolation is
\* on).
C14_DrainOrder ==
    obs.kind = "drain" =>
        /\ Len(obs.calls) = 1 + 2 * obs.updates + Len(RenderCalls)
        /\ \A i \in 1..obs.updates :
               /\ obs.calls[2 * i] = "capture"
               /\ obs.calls[2 * i + 1] = "update"
        /\ SubSeq(obs.calls, 2 + 2 * obs.updates, Len(obs.calls)) = RenderCalls
        /\ Count(obs.calls, "draw") = 1

\* A drain of two ticks with interpolation on.
C14_Witness ==
    /\ obs.kind = "drain"
    /\ obs.updates = 2
    /\ obs.calls = <<"requestAnimationFrame", "capture", "update",
                     "capture", "update", "interpolate", "draw", "restore">>

\* ---- C15

\* C15 as stated: whenever update is called, on every node the previous
\* shadow of every enabled category equals the live value; after every
\* render, on every node the current shadow of every enabled category
\* equals the live value.
C15_ShadowsRefreshed ==
    /\ obs.updates >= 1 => obs.stale = {}
    /\ Drew =>
           \A n \in Nodes : \A a \in LiveAttrs :
               properties[Category[a]] =>
                   sprites[n][CurrentField[a]] = sprites[n][a]

\* C15 amended: whenever a drain calls update, on every node below the root
\* the previous shadow of every enabled category equals the live value;
\* after every render made with interpolation on, on every node below the
\* root the current shadow of every enabled category equals the live value,
\* for width and height on instances of Sprite only.  (Nothing is said of
\* the root, of the update call of the uncapped mode, or of a render with
\* interpolation off.)
C15_DescendantShadowsRefreshed ==
    /\ obs.kind = "drain" => \A na \in obs.stale : na[1] = Root
    /\ Interpolated =>
           \A n \in Nodes \ {Root} : \A a \in LiveAttrs :
               (properties[Category[a]]
                /\ (Category[a] = "size" => IsSprite(n))) =>
                   sprites[n][CurrentField[a]] = sprites[n][a]

\* A drain of at least one tick with every category on: only the root's
\* previous shadows were not captured, the sprite's current width is its
\* live width, the container's and the root's current shadows are unset.
C15_Witness ==
    /\ obs.kind = "drain" /\ obs.updates >= 1
    /\ Interpolated
    /\ properties = EveryProperty
    /\ obs.stale = {Root} \X LiveAttrs
    /\ sprites.ball._currentWidth = sprites.ball.width
    /\ sprites.decal._currentAlpha = sprites.decal.alpha
    /\ sprites.group._currentX = sprites.group.x
    /\ sprites.group._currentWidth = Undefined
    /\ sprites.stage._currentX = Undefined

\* ---- C16

\* The nodes on which update found every enabled previous shadow equal to
\* the live value, and the nodes on which some current shadow has been
\* written.
Captured == {n \in Nodes : \A a \in LiveAttrs : <<n, a>> \notin obs.stale}
Saved ==
    {n \in Nodes : \E a \in LiveAttrs : sprites[n][CurrentField[a]] # Undefined}

\* Some category is enabled, and some category other than size is.
SomeCategory == \E a \in LiveAttrs : properties[Category[a]]
SomeCategoryBesideSize ==
    \E a \in LiveAttrs : Category[a] # "size" /\ properties[Category[a]]

Parents == {n \in Nodes : Children[n] # <<>>}
PlainContainers == {"stage", "group"}

\* C17 as stated: with size enabled, an interpolating render draws every
\* node that has children with its live width and height and leaves them
\* so.
C17_ParentsKeepSize ==
    (Interpolated /\ properties.size) =>
        \A n \in Parents : \A a \in {"width", "height"} :
            /\ obs.drawn[n][a] = obs.pre[n][a]
            /\ sprites[n][a] = obs.pre[n][a]

\* C17 amended: with size enabled, an interpolating render draws every node
\* that is not an instance of Sprite with its live width and height and
\* leaves them so; an instance of Sprite, with or without children, is
\* drawn with its width and height blended once it has previous values.
C17_ContainersKeepSize ==
    (Interpolated /\ properties.size /\ IsNumFrac(obs.tick)) =>
        /\ \A n \in PlainContainers : \A a \in {"width", "height"} :
               /\ obs.drawn[n][a] = obs.pre[n][a]
               /\ sprites[n][a] = obs.pre[n][a]
        /\ \A n \in Nodes \ PlainContainers : \A a \in {"width", "height"} :
               /\ obs.drawn[n][a] = Shown(n, a, TRUE)
               /\ sprites[n][a] = obs.pre[n][a]

\* A render at fraction 1/2 with size on: the sprite that has a child is
\* drawn with its width halfway, the container with its live width although
\* a different previous width is stored on it.
C17_Witness ==
    /\ Interpolated /\ properties.size
    /\ obs.tick = <<50, 100>>
    /\ "ball" \in Parents
    /\ obs.pre.ball._previousWidth = 800 /\ obs.pre.ball.width = 1200
    /\ obs.drawn.ball.width = 1000
    /\ sprites.ball.width = 1200
    /\ obs.pre.group._previousWidth = 800 /\ obs.pre.group.width = 1600
    /\ obs.drawn.group.width = 1600

\* ---- C18

\* C18: with interpolation off a render is one draw call and nothing else:
\* the draw call sees the live values, the nodes are after it as they were
\* before it, shadow fields included, and no current shadow field is ever
\* written.
C18_PlainDraw ==
    (Drew /\ ~interpolate) =>
        /\ SubSeq(obs.calls, Len(obs.calls), Len(obs.calls)) = <<"draw">>
        /\ Count(obs.calls, "draw") = 1
        /\ Count(obs.calls, "interpolate") = 0
        /\ Count(obs.calls, "restore") = 0
        /\ obs.drawn = Live(obs.pre)
        /\ sprites = obs.pre
        /\ \A n \in Nodes : \A a \in LiveAttrs :
               sprites[n][CurrentField[a]] = Undefined

\* A drain of one tick at fraction 1/2 with interpolation off and every
\* category on: the sprite has a previous x that differs from its live x
\* and is drawn at the live x.
C18_Witness ==
    /\ ~interpolate
    /\ obs.kind = "drain" /\ obs.updates = 1
    /\ properties = EveryProperty
    /\ obs.tick = <<50, 100>>
    /\ obs.pre.ball._previousX = 0 /\ obs.pre.ball.x = 1000
    /\ obs.drawn.ball.x = 1000
    /\ sprites = obs.pre

\* ---- C19

\* C19: pause(), resume() and an invocation while paused leave _startTime
\* as it is; so a drain measures the time since the previous drain (since
\* construction, for the first), pauses included, and, with a positive tick
\* duration and the lag in [0, tick duration), makes one update call if
\* that time is above 1000 ms and floor((lag + time) / tick duration) update
\* calls otherwise.
C19_PauseKeepsClock ==
    [][ /\ ((Invoked /\ paused) \/ paused' # paused) =>
               _startTime' = _startTime
        /\ (Invoked /\ obs'.kind = "drain") =>
               /\ _startTime = IF lastDrain.timestamp = Undefined
                               THEN 0
                               ELSE DateNow(lastDrain.timestamp)
               /\ obs'.measured = DateNow(clock') - _startTime
               /\ (/\ IsNum(_frameDuration) /\ _frameDuration > 0
                   /\ IsNum(_lag) /\ 0 <= _lag /\ _lag < _frameDuration) =>
                      obs'.updates =
                          IF obs'.measured > SpikeCeiling * TimeScale
                          THEN 1
                          ELSE (_lag + obs'.measured) \div _frameDuration
      ]_vars

\* With a logic rate of 60 from construction and no render rate, a drain
\* that measured between two frame times and 1000 ms, which only a pause
\* before it explains, and made the catch-up update calls.
C19_Witness ==
    /\ obs.kind = "drain"
    /\ _fps = 60 /\ _renderFps = Undefined /\ changes = 0
    /\ obs.measured > 102 /\ obs.measured <= SpikeCeiling * TimeScale
    /\ obs.updates >= 3
    /\ obs.updates = (obs.lagBefore + obs.measured) \div obs.frameDuration

\* ---- C20

\* C20: a step of the constructed object that changes the lag, the
\* last-update timestamp or the fraction is a drain; an invocation that is
\* skipped by the render cap or made while paused leaves every node and the
\* next render time as they are; and as long as no drain since the logic
\* rate was set measured more than 1000 ms, the update calls made are
\* floor((lag at the start + all the time measured) / tick duration).
C20_OnlyDrainAdvances ==
    /\ [][ /\ (/\ status = "constructed"
               /\ <<_lag, _startTime, _tick>>' # <<_lag, _startTime, _tick>>)
              => (Invoked /\ obs'.kind = "drain")
           /\ (Invoked /\ obs'.kind \in {"skipped", "paused"}) =>
                  /\ sprites' = sprites
                  /\ _renderStartTime' = _renderStartTime
         ]_vars
    /\ []((SteadyRun /\ run.sum = run.effective) =>
              /\ run.updates = (run.lagBefore + run.sum) \div _frameDuration
              /\ run.sum <= DateNow(clock))

\* Under the render cap at 60 updates a second: an invocation was skipped
\* after two drains, the second of which made up the time of an earlier
\* skipped invocation.
C20_Witness ==
    /\ Capped /\ _fps = 60 /\ changes = 0 /\ ~paused
    /\ obs.kind = "skipped"
    /\ run.drains = 2
    /\ run.sum = run.effective
    /\ run.sum = 150
    /\ run.updates = 3
    /\ _lag = 0

\* ---- C21

\* C21: every invocation of the callback returns, its drain loop having
\* ended after finitely many updates, whatever the logic rate accepted by
\* the constructor or the setter and whatever the time elapsed.
C21_EveryInvocationReturns ==
    [][Invoked => status' = "constructed"]_vars

\* ---- C22

\* C22: a drain made with a positive tick duration of at most 1000 ms calls
\* update at most floor(1000 / tick duration) + 1 times, whatever the
\* invocations, pauses and changes of rate before it.
C22_BurstBounded ==
    (/\ obs.kind = "drain"
     /\ IsNum(obs.frameDuration)
     /\ obs.frameDuration > 0
     /\ obs.frameDuration <= SpikeCeiling * TimeScale)
        => obs.updates <=
               (SpikeCeiling * TimeScale) \div obs.frameDuration + 1

\* ---- C23

\* C23: the registrations held by the display-refresh source, those still
\* to run in the current refresh and those made for the next, are as many
\* as the start() calls made so far and never become fewer; pause() and
\* resume() leave them as they are; the first callback of a refresh finds
\* none left over from the refresh before and leaves one fewer than the
\* start() calls to run at the same timestamp, each of which leaves one
\* fewer again, so that k start() calls give k callbacks per refresh.
C23_RegistrationsFollowStarts ==
    /\ [](pending + due = starts)
    /\ [][ /\ pending' + due' >= pending + due
           /\ (paused' # paused) => (pending' = pending /\ due' = due)
           /\ Invoked =>
                  IF clock' > clock
                  THEN due = 0 /\ due' = starts - 1 /\ pending' = 1
                  ELSE due' = due - 1 /\ pending' = pending + 1
         ]_vars

\* Three start() calls and a pause(): the three callbacks of the first
\* refresh have run, paused, and three registrations are held for the next.
C23_Witness ==
    /\ starts = 3 /\ frames = 3 /\ clock = 50
    /\ paused /\ obs.kind = "paused"
    /\ due = 0 /\ pending = 3

====
